---- MODULE Spec2Model ----
(***************************************************************************)
(* A model of app/scripts/document_summarizer.py: text extraction, the     *)
(* section splitter, the per-section summarizer with its retry loop and    *)
(* credential fallback, and the final merge pass.                          *)
(*                                                                         *)
(* A Python str is a sequence of one-character strings.  A string literal  *)
(* of the program that is only ever copied ("Introduction", the failure    *)
(* sentinel) is kept as one element of such a sequence.                    *)
(***************************************************************************)
EXTENDS Naturals, Integers, Sequences, FiniteSets, TLC

\* ------------------------------------------------------------------ bounds
\* longest text handed to split_into_sections when it is checked alone
MaxLen == 5
\* largest `retries` argument of a direct summarize_section call
MaxRetries == 3
\* number of flows that run switch_to_next_key concurrently
NumFlows == 2
\* largest number of headed sections of a document given to summarize_document
MaxSections == 2
\* the requests the HTTP layer serves
MaxRequests == 2

\* ------------------------------------------------------- program constants
\* summarize_section(..., retries: int = 3, ...)
DefaultRetries == 3
\* if len(section_text.strip().split()) < 10
MinWords == 10

\* ---------------------------------------------------------------- strings
\* [A-Z] of the heading pattern (the letters the model's texts use)
UpperChars == {"A", "B", "C"}
\* \s of the heading pattern, and what str.strip() and str.split() remove
WhiteChars == {" ", "\n"}
\* the characters the bounded texts are built from
Alphabet == {"A", "B", "a", " ", "\n", ":"}

EmptyStr == << >>

\* str.strip(): the text without its leading and trailing whitespace
RECURSIVE LStrip(_)
LStrip(t) ==
    IF t # << >> /\ Head(t) \in WhiteChars THEN LStrip(Tail(t)) ELSE t

RECURSIVE RStrip(_)
RStrip(t) ==
    IF t # << >> /\ t[Len(t)] \in WhiteChars
    THEN RStrip(SubSeq(t, 1, Len(t) - 1))
    ELSE t

Strip(t) == RStrip(LStrip(t))

\* len(t.split()): the number of maximal runs of non-whitespace characters
WordCount(t) ==
    Cardinality({i \in 1..Len(t) :
        /\ t[i] \notin WhiteChars
        /\ (i = 1 \/ t[i - 1] \in WhiteChars)})

\* sep.join(parts)
RECURSIVE Join(_, _)
Join(sep, parts) ==
    IF parts = << >> THEN << >>
    ELSE IF Len(parts) = 1 THEN parts[1]
    ELSE parts[1] \o sep \o Join(sep, Tail(parts))

\* ------------------------------------------- the heading pattern (line 62)
\* ^ under re.MULTILINE: position i is the start of the text or follows "\n"
AtLineStart(t, i) == i = 1 \/ t[i - 1] = "\n"
\* $ under re.MULTILINE: position i is the end of the text or precedes "\n"
AtLineEnd(t, i) == i = Len(t) + 1 \/ t[i] = "\n"

\* first position at or after i that holds no [A-Z\s] character
RECURSIVE RunEnd(_, _)
RunEnd(t, i) ==
    IF i <= Len(t) /\ t[i] \in (UpperChars \cup WhiteChars)
    THEN RunEnd(t, i + 1)
    ELSE i

\* where the match of :?$ that starts at position k ends, 0 when there is none
TailEnd(t, k) ==
    IF k <= Len(t) /\ t[k] = ":" /\ AtLineEnd(t, k + 1) THEN k + 1
    ELSE IF AtLineEnd(t, k) THEN k
    ELSE 0

\* The position after the match of ^[A-Z][A-Z\s]{2,}:?$ that starts at
\* position i, 0 when there is none.  [A-Z\s]{2,} is greedy: the longest run
\* after which :?$ matches is taken.
MatchEnd(t, i) ==
    IF ~(i <= Len(t) /\ AtLineStart(t, i) /\ t[i] \in UpperChars) THEN 0
    ELSE LET r  == RunEnd(t, i + 1)
             ks == {k \in (i + 3)..r : TailEnd(t, k) # 0}
         IN  IF ks = {} THEN 0
             ELSE TailEnd(t, CHOOSE k \in ks : \A j \in ks : j <= k)

\* pattern.match(part): the pattern matches at the start of part
PatternMatch(part) == MatchEnd(part, 1) # 0

\* pattern.split(text) from position p on: the text before each match, the
\* match (the pattern's one group), ..., and the rest of the text
RECURSIVE PatternSplitFrom(_, _)
PatternSplitFrom(t, p) ==
    LET starts == {i \in p..Len(t) : MatchEnd(t, i) # 0}
    IN  IF starts = {} THEN << SubSeq(t, p, Len(t)) >>
        ELSE LET i == CHOOSE s \in starts : \A j \in starts : s <= j
                 e == MatchEnd(t, i)
             IN  << SubSeq(t, p, i - 1), SubSeq(t, i, e - 1) >>
                    \o PatternSplitFrom(t, e)

PatternSplit(t) == PatternSplitFrom(t, 1)

\* text.split(sep) for a non-empty separator
RECURSIVE StrSplitFrom(_, _, _)
StrSplitFrom(t, sep, p) ==
    LET n      == Len(sep)
        starts == {i \in p..(Len(t) - n + 1) : SubSeq(t, i, i + n - 1) = sep}
    IN  IF starts = {} THEN << SubSeq(t, p, Len(t)) >>
        ELSE LET i == CHOOSE s \in starts : \A j \in starts : s <= j
             IN  << SubSeq(t, p, i - 1) >> \o StrSplitFrom(t, sep, i + n)

StrSplit(t, sep) == StrSplitFrom(t, sep, 1)

\* ------------------------------------------------- split_into_sections
Introduction == << "Introduction" >>

\* str(i) for the small numbers the model reaches
Digits == << "1", "2", "3", "4", "5", "6", "7", "8", "9" >>
RECURSIVE IntStr(_)
IntStr(n) ==
    IF n < 10 THEN << IF n = 0 THEN "0" ELSE Digits[n] >>
    ELSE IntStr(n \div 10) \o IntStr(n % 10)

\* f"Section {i+1}" for the 0-based index i
SectionLabel(i) == << "Section " >> \o IntStr(i + 1)

\* mutant of AddSection: the new section is put before the earlier ones
AddSection_Prepends(secs, heading, buffer) ==
    << << heading, Strip(buffer) >> >> \o secs

\* lines 73, 79: sections.append((current_heading, buffer.strip()))
AddSection(secs, heading, buffer) ==
    Append(secs, << heading, Strip(buffer) >>)

\* The loop of lines 69-77 over splits[k..]: st is
\* [sections, current_heading, buffer].
RECURSIVE SplitLoop(_, _, _)
SplitLoop(splits, k, st) ==
    IF k > Len(splits) THEN st
    ELSE LET part == Strip(splits[k])
         IN  IF PatternMatch(part)
             THEN SplitLoop(splits, k + 1,
                    [sections |-> IF st.buffer # << >>
                                  THEN AddSection(st.sections,
                                         st.current_heading, st.buffer)
                                  ELSE st.sections,
                     current_heading |-> part,
                     buffer |-> << >>])
             ELSE SplitLoop(splits, k + 1,
                    [st EXCEPT !.buffer = st.buffer \o part \o << "\n" >>])

\* lines 81-82: the blank-line paragraphs, labelled "Section i"
ParagraphSections(text) ==
    LET raw_sections == StrSplit(text, << "\n", "\n" >>)
    IN  [i \in 1..Len(raw_sections) |->
            << SectionLabel(i - 1), Strip(raw_sections[i]) >>]

split_into_sections(text) ==
    LET splits == PatternSplit(text)
    IN  IF splits # << >>
        THEN LET st == SplitLoop(splits, 1,
                         [sections |-> << >>,
                          current_heading |-> Introduction,
                          buffer |-> << >>])
             IN  IF st.buffer # << >>
                 THEN AddSection(st.sections, st.current_heading, st.buffer)
                 ELSE st.sections
        ELSE ParagraphSections(text)

\* ------------------------------------------------------------ credentials
\* GEMINI_API_KEYS (lines 11-15); the list is 0-indexed in the source
GEMINI_API_KEYS == << "key0", "key1", "key2" >>
KeyAt(i) == GEMINI_API_KEYS[i + 1]
NumKeys == Len(GEMINI_API_KEYS)

\* mutant of CanSwitch: the last credential is never switched to
CanSwitch_SkipsLast(i) == i + 2 < NumKeys

\* line 91: current_key_index + 1 < len(GEMINI_API_KEYS)
CanSwitch(i) == i + 1 < NumKeys

\* mutant of NextIndex: the cursor wraps around to the first credential
NextIndex_Wraps(i) == IF i + 1 = NumKeys - 1 THEN 0 ELSE i + 1

\* line 92: current_key_index += 1
NextIndex(i) == i + 1

\* ------------------------------------------------------ generation service
\* what generate_content can do: raise an error with a message, or return a
\* response, here the list of its candidates, each the list of the texts of
\* its content parts
ErrorMessages == {"429 Quota exceeded", "quota", "Connection timeout"}
GenTexts == {<< " " >>, << "s" >>, << "t" >>, << " ", "s", "\n" >>}
Responses == {<< >>, << << >> >>} \cup {<< << g >> >> : g \in GenTexts}
Outcomes == [kind : {"error"}, message : ErrorMessages]
                \cup [kind : {"response"}, candidates : Responses]

\* str(e).lower()
Lower(m) ==
    CASE m = "429 Quota exceeded" -> "429 quota exceeded"
      [] m = "quota"              -> "quota"
      [] m = "Connection timeout" -> "connection timeout"

\* "quota" in str(e).lower()
IsQuota(m) == Lower(m) \in {"429 quota exceeded", "quota"}

\* lines 135-139 and 205-209: the stripped text of the first part of the
\* first candidate, "" when there is no candidate or no part
ResponseText(candidates) ==
    IF candidates # << >> /\ candidates[1] # << >>
    THEN Strip(candidates[1][1])
    ELSE EmptyStr

\* line 148
Sentinel == << "⚠ Summary failed after retries." >>

\* line 160: f"## {heading}\n{summary}\n"
Block(heading, summary) ==
    << "#", "#", " " >> \o heading \o << "\n" >> \o summary \o << "\n" >>

\* line 162: "\n".join(section_summaries)
MergedSummary(blocks) == Join(<< "\n" >>, blocks)

\* ---------------------------------------------------------- read_document
Exts == {".pdf", ".PDF", ".docx", ".doc", ".txt", ".Txt", ".md", ".MD", ""}

\* mutant of LowerExt: the extension is compared as it is written
LowerExt_CaseSensitive(p) == p[1]

\* os.path.splitext(path)[1].lower(); a path is kept as its extension alone
LowerExt(p) ==
    CASE p[1] = ".PDF" -> ".pdf"
      [] p[1] = ".Txt" -> ".txt"
      [] p[1] = ".MD"  -> ".md"
      [] OTHER         -> p[1]

\* lines 45-50: the extensions read_document has a reader for
Supported(ext) == ext \in {".pdf", ".docx", ".doc", ".txt"}

\* line 52
UnsupportedError(ext) == << "Unsupported file type: ", ext >>

\* ------------------------------------------------------- bounded inputs
\* n words separated by single spaces
RECURSIVE Words(_)
Words(n) ==
    IF n = 0 THEN << >>
    ELSE IF n = 1 THEN << "a" >>
    ELSE Words(n - 1) \o << " ", "a" >>

\* a heading line: i + 2 capital letters
RECURSIVE HeadingLine(_)
HeadingLine(i) == IF i = 0 THEN << "A", "A" >> ELSE Append(HeadingLine(i - 1), "A")

\* section bodies just at and just under the word threshold
BodyTexts == {Words(MinWords), Words(MinWords - 1)}

\* the texts with exactly n headed sections
RECURSIVE DocsWith(_)
DocsWith(n) ==
    IF n = 0 THEN {<< >>}
    ELSE {d \o HeadingLine(n) \o << "\n" >> \o b \o << "\n", "\n" >> :
            d \in DocsWith(n - 1), b \in BodyTexts}

\* what may stand before the first heading
Leads == {<< >>,
          Words(MinWords) \o << "\n" >>,
          Words(MinWords) \o << "\n", "\n" >> \o Words(2) \o << "\n" >>}

\* the texts read_document may return
DocTexts == {l \o d : l \in Leads, d \in UNION {DocsWith(n) : n \in 0..MaxSections}}

\* the section_text arguments of a direct summarize_section call
SectionBodies == BodyTexts \cup {<< >>, << " ", "\n" >>, << " " >> \o Words(MinWords) \o << "\n" >>}

\* all texts of at most n characters
RECURSIVE TextsUpTo(_)
TextsUpTo(n) ==
    IF n = 0 THEN {<< >>}
    ELSE LET shorter == TextsUpTo(n - 1)
         IN  shorter \cup {Append(t, c) : t \in {u \in shorter : Len(u) = n - 1},
                                          c \in Alphabet}

\* ------------------------------------------------------------------ state
None == << "None" >>
\* no generation request was issued yet
NoKey == "none"

VARIABLES
    current_key_index,  \* the credential cursor (line 17)
    api_key,            \* the credential the client is configured with
    pc,                 \* where the flow is
    mode,               \* the call the flow serves: "doc" or "section"
    path,               \* summarize_document's argument, << its extension >>
    error,              \* the exception summarize_document raised, or None
    text,               \* the text read_document returned
    sections,           \* split_into_sections(text)
    idx,                \* 1-based index of the section being summarized
    section_summaries,  \* the labeled blocks built so far (line 160)
    summaries,          \* what summarize_section returned for each section
    merged_summary,     \* line 162
    merge_kind,         \* how the merge request ended: none, text, empty, error
    merge_calls,        \* generation requests issued by the merge stage
    merge_error,        \* the message of the error the merge request raised
    section_text,       \* summarize_section's argument
    retries,            \* summarize_section's argument
    attempt,            \* the loop variable of line 125
    calls,              \* generation requests issued by the running call
    sleeps,             \* time.sleep(delay) calls made by the running call
    outcomes,           \* how each request of the running call ended, in order
    rotated,            \* the cursor advanced and no request was issued since
    startIndex,         \* the cursor when the running summarize_section began
    lastKey,            \* the credential of the latest generation request
    ret,                \* what summarize_section returned
    result,             \* what the flow's call returned
    kpc,                \* per concurrent flow: its place in switch_to_next_key
    kreg,               \* per concurrent flow: the cursor value it loaded
    kret,               \* per concurrent flow: how its last call ended
    kkey,               \* per concurrent flow: the credential it looked up
    kmax                \* the largest value the cursor was advanced to

\* the file system save_summary writes to, and the running save_summary call
VARIABLES
    dirs,               \* the directories that exist
    files,              \* the bytes of each file that exists, by path
    summary_path,       \* what save_summary returned (line 234)
    save_error,         \* the exception save_summary raised, or None
    save_args,          \* save_summary's arguments: text, base name, folder
    readback            \* what reading summary_path returned

storeVars == << dirs, files, summary_path, save_error, save_args, readback >>

\* the HTTP layer (main.py): the running request and what outlives it
VARIABLES
    endpoint,           \* the endpoint serving the request: upload, ingest_url
    raw_path,           \* where the request's raw file is kept
    title,              \* base_filename: the record's title, the file's base
    url,                \* the url of the request's record
    response,           \* << status, body >> sent to the client
    raw_files,          \* the raw files that exist
    db,                 \* the records of the summaries collection, in order
    pending,            \* the requests suspended at await insert_one, in order
    requests            \* requests accepted so far

ingestVars == << endpoint, raw_path, title, url, response, raw_files, db,
                 pending, requests >>

cursorVars == << current_key_index, api_key >>
docVars == << path, error, text, sections, idx, section_summaries, summaries,
              merged_summary, merge_kind, merge_calls,
              merge_error >>
callVars == << section_text, retries, attempt, calls, sleeps, outcomes,
               rotated, startIndex, ret >>
concVars == << kpc, kreg, kret, kkey, kmax >>
vars == << current_key_index, api_key, pc, mode, path, error, text, sections,
           idx, section_summaries, summaries, merged_summary, merge_kind,
           merge_calls, merge_error, section_text, retries, attempt, calls,
           sleeps, outcomes, rotated,
           startIndex, lastKey, ret, result, kpc, kreg, kret, kkey, kmax,
           dirs, files, summary_path, save_error, save_args, readback,
           endpoint, raw_path, title, url, response, raw_files, db, pending,
           requests >>

Flows == 1..NumFlows

\* the state after the module is imported (lines 17-19), no call running
InitLocals ==
    /\ mode = "none"
    /\ path = None
    /\ error = None
    /\ text = None
    /\ sections = << >>
    /\ idx = 0
    /\ section_summaries = << >>
    /\ summaries = << >>
    /\ merged_summary = None
    /\ merge_kind = "none"
    /\ merge_calls = 0
    /\ merge_error = None
    /\ section_text = None
    /\ retries = 0
    /\ attempt = 0
    /\ calls = 0
    /\ sleeps = 0
    /\ outcomes = << >>
    /\ rotated = FALSE
    /\ startIndex = 0
    /\ lastKey = NoKey
    /\ ret = None
    /\ result = None

\* the same values, as the next state
ResetLocals ==
    /\ mode' = "none"
    /\ path' = None
    /\ error' = None
    /\ text' = None
    /\ sections' = << >>
    /\ idx' = 0
    /\ section_summaries' = << >>
    /\ summaries' = << >>
    /\ merged_summary' = None
    /\ merge_kind' = "none"
    /\ merge_calls' = 0
    /\ merge_error' = None
    /\ section_text' = None
    /\ retries' = 0
    /\ attempt' = 0
    /\ calls' = 0
    /\ sleeps' = 0
    /\ outcomes' = << >>
    /\ rotated' = FALSE
    /\ startIndex' = 0
    /\ lastKey' = NoKey
    /\ ret' = None
    /\ result' = None

\* the working directory exists, nothing was saved yet
Cwd == << >>

InitStore ==
    /\ dirs = {Cwd}
    /\ files = << >>
    /\ summary_path = None
    /\ save_error = None
    /\ save_args = None
    /\ readback = None

\* no request was served yet
InitIngest ==
    /\ endpoint = "none"
    /\ raw_path = None
    /\ title = None
    /\ url = None
    /\ response = None
    /\ raw_files = {}
    /\ db = << >>
    /\ pending = << >>
    /\ requests = 0

InitConc ==
    /\ kpc = [f \in Flows |-> "idle"]
    /\ kreg = [f \in Flows |-> 0]
    /\ kret = [f \in Flows |-> "none"]
    /\ kkey = [f \in Flows |-> NoKey]
    /\ kmax = 0

Init ==
    /\ current_key_index = 0
    /\ api_key = KeyAt(0)
    /\ pc = "Idle"
    /\ InitLocals
    /\ InitConc
    /\ InitStore
    /\ InitIngest

\* --------------------------------------------------- summarize_section
\* mutant of TooShort: the threshold one word too low
TooShort_OffByOne(body) == WordCount(Strip(body)) < MinWords - 1

\* line 102: the noise filter
TooShort(body) == WordCount(Strip(body)) < MinWords

\* mutant of LoopContinues: one iteration too many
LoopContinues_Inclusive(a, r) == a <= r

\* line 125: for attempt in range(retries)
LoopContinues(a, r) == a < r

\* mutant of Catches: only quota errors are handled, the others propagate
Catches_OnlyQuota(message) == IsQuota(message)

\* line 143: except Exception catches every error of the request
Catches(message) == TRUE

\* mutant of AfterContinue: the iteration is repeated, its attempt not spent
AfterContinue_SameAttempt(a) == a

\* line 145: continue goes to the next value of range(retries)
AfterContinue(a) == a + 1

\* how a request ended: a non-empty text, an empty or missing one, an error
\* whose message names the quota, another error
OutcomeKind(o) ==
    IF o.kind = "response"
    THEN IF ResponseText(o.candidates) # EmptyStr
         THEN << "text", ResponseText(o.candidates) >>
         ELSE << "empty" >>
    ELSE IF IsQuota(o.message) THEN << "quota" >> ELSE << "error" >>

Max(a, b) == IF a >= b THEN a ELSE b

\* line 94: GEMINI_API_KEYS[current_key_index] raises IndexError out of range
KeyInRange(i) == i < NumKeys

\* lines 100-125: the call begins; a short body returns "" at once, and with
\* no attempt to make the loop falls through to the sentinel
EnterSection(body, r) ==
    /\ section_text' = body
    /\ retries' = r
    /\ attempt' = 0
    /\ calls' = 0
    /\ sleeps' = 0
    /\ outcomes' = << >>
    /\ rotated' = FALSE
    /\ startIndex' = current_key_index
    /\ IF TooShort(body)
       THEN pc' = "Returned" /\ ret' = EmptyStr
       ELSE IF LoopContinues(0, r)
            THEN pc' = "Attempt" /\ ret' = None
            ELSE pc' = "Returned" /\ ret' = Sentinel

\* the end of one iteration that did not return: the next attempt, or line 148
NextAttempt ==
    /\ attempt' = AfterContinue(attempt)
    /\ IF LoopContinues(AfterContinue(attempt), retries)
       THEN pc' = "Attempt" /\ ret' = None
       ELSE pc' = "Returned" /\ ret' = Sentinel

\* lines 125-147: one iteration of the retry loop with the service answering o
Attempt(o) ==
    /\ pc = "Attempt"
    /\ LoopContinues(attempt, retries)
    /\ calls' = calls + 1
    /\ outcomes' = Append(outcomes, OutcomeKind(o))
    /\ lastKey' = api_key
    /\ UNCHANGED << mode, docVars, section_text, retries, startIndex, result,
                    kpc, kreg, kret, kkey, storeVars, ingestVars >>
    /\ IF o.kind = "response"
       THEN LET summary == ResponseText(o.candidates)
            IN  IF summary # EmptyStr
                THEN \* line 141
                     /\ pc' = "Returned"
                     /\ ret' = summary
                     /\ rotated' = FALSE
                     /\ UNCHANGED << attempt, sleeps, cursorVars >>
                ELSE \* lines 142, 147
                     /\ sleeps' = sleeps + 1
                     /\ rotated' = FALSE
                     /\ NextAttempt
                     /\ UNCHANGED cursorVars
       ELSE IF ~Catches(o.message)
            THEN \* the error leaves summarize_section
                 /\ pc' = "Failed"
                 /\ rotated' = FALSE
                 /\ UNCHANGED << attempt, sleeps, cursorVars, ret >>
            ELSE IF IsQuota(o.message) /\ CanSwitch(current_key_index)
                 THEN \* lines 144-145 with switch_to_next_key returning True
                      /\ current_key_index' = NextIndex(current_key_index)
                      /\ IF KeyInRange(NextIndex(current_key_index))
                         THEN /\ api_key' = KeyAt(NextIndex(current_key_index))
                              /\ rotated' = TRUE
                              /\ NextAttempt
                              /\ UNCHANGED sleeps
                         ELSE \* IndexError inside the handler
                              /\ pc' = "Failed"
                              /\ rotated' = FALSE
                              /\ UNCHANGED << api_key, attempt, sleeps, ret >>
                 ELSE \* lines 146-147
                      /\ sleeps' = sleeps + 1
                      /\ rotated' = FALSE
                      /\ NextAttempt
                      /\ UNCHANGED cursorVars
    /\ kmax' = Max(kmax, current_key_index')

\* a caller other than the pipeline calls summarize_section(body, r)
CallSummarizeSection(body, r) ==
    /\ pc = "Idle"
    /\ mode' = "section"
    /\ EnterSection(body, r)
    /\ UNCHANGED << cursorVars, docVars, lastKey, result, concVars,
                    storeVars, ingestVars >>

\* ------------------------------------------- summarize_text_by_sections
\* mutant of MergeResult: the fallback to the merged-summary string is lost
MergeResult_NoFallback(final_summary, merged) == final_summary

\* lines 210-215: the merged text, or the merged-summary string
MergeResult(final_summary, merged) ==
    IF final_summary # EmptyStr THEN final_summary ELSE merged

\* mutant of MoreSections: the loop ends one section early
MoreSections_SkipsLast(i, n) == i < n

\* line 157: for heading, content in sections, at the 1-based position i of n
MoreSections(i, n) == i <= n

\* lines 157-162: the next section is summarized, or the blocks are joined
NextSection ==
    /\ pc = "Summarizing"
    /\ IF MoreSections(idx, Len(sections))
       THEN /\ EnterSection(sections[idx][2], DefaultRetries)
            /\ UNCHANGED merged_summary
       ELSE /\ merged_summary' = MergedSummary(section_summaries)
            /\ pc' = "Merging"
            /\ UNCHANGED callVars
    /\ UNCHANGED << cursorVars, mode, path, error, text, sections, idx,
                    section_summaries, summaries, merge_kind, merge_calls, merge_error,
                    lastKey, result, concVars, storeVars, ingestVars >>

\* summarize_section returns: to line 160 of the pipeline, or to its caller
ReturnSection ==
    /\ pc = "Returned"
    /\ IF mode = "doc"
       THEN /\ section_summaries' =
                  Append(section_summaries, Block(sections[idx][1], ret))
            /\ summaries' = Append(summaries, ret)
            /\ idx' = idx + 1
            /\ pc' = "Summarizing"
            /\ UNCHANGED result
       ELSE /\ result' = ret
            /\ pc' = "Done"
            /\ UNCHANGED << section_summaries, summaries, idx >>
    /\ UNCHANGED << cursorVars, mode, path, error, text, sections,
                    merged_summary, merge_kind, merge_calls, merge_error,
                    callVars, lastKey,
                    concVars, storeVars, ingestVars >>

\* mutant of MergeCursor: the merge handler advances the cursor on a quota
\* error, as the handler of summarize_section does
MergeCursor_Rotates(o, i) ==
    IF o.kind = "error" /\ IsQuota(o.message) /\ CanSwitch(i)
    THEN NextIndex(i) ELSE i

\* lines 212-213: the handler of the merge request prints the error and
\* nothing else
MergeCursor(o, i) == i

\* lines 200-215: the one merge request, with the service answering o
Merge(o) ==
    /\ pc = "Merging"
    /\ merge_calls' = merge_calls + 1
    /\ merge_error' = IF o.kind = "error" THEN << o.message >> ELSE None
    /\ lastKey' = api_key
    /\ current_key_index' = MergeCursor(o, current_key_index)
    /\ LET final_summary == IF o.kind = "response"
                            THEN ResponseText(o.candidates)
                            ELSE EmptyStr
       IN  /\ merge_kind' = IF o.kind = "error" THEN "error"
                            ELSE IF final_summary = EmptyStr THEN "empty"
                            ELSE "text"
           /\ result' = MergeResult(final_summary, merged_summary)
    /\ pc' = "Done"
    /\ UNCHANGED << api_key, mode, path, error, text, sections, idx,
                    section_summaries, summaries, merged_summary, callVars,
                    concVars, storeVars, ingestVars >>

\* ----------------------------------------------------- summarize_document
CallSummarizeDocument(p) ==
    /\ pc = "Idle"
    /\ mode' = "doc"
    /\ path' = << p >>
    /\ pc' = "Extracting"
    /\ UNCHANGED << cursorVars, error, text, sections, idx, section_summaries,
                    summaries, merged_summary, merge_kind, merge_calls, merge_error,
                    callVars, lastKey, result, concVars, storeVars, ingestVars >>

\* line 52: no reader for the extension
ReadUnsupported ==
    /\ pc = "Extracting"
    /\ ~Supported(LowerExt(path))
    /\ error' = UnsupportedError(LowerExt(path))
    /\ pc' = "Failed"
    /\ UNCHANGED << cursorVars, mode, path, text, sections, idx,
                    section_summaries, summaries, merged_summary, merge_kind,
                    merge_calls, merge_error, callVars, lastKey, result, concVars,
                    storeVars, ingestVars >>

\* lines 45-50: the reader raises (missing or corrupt file, decode error)
ReadFails ==
    /\ pc = "Extracting"
    /\ Supported(LowerExt(path))
    /\ error' = << "read error" >>
    /\ pc' = "Failed"
    /\ UNCHANGED << cursorVars, mode, path, text, sections, idx,
                    section_summaries, summaries, merged_summary, merge_kind,
                    merge_calls, merge_error, callVars, lastKey, result, concVars,
                    storeVars, ingestVars >>

\* lines 222-223 and 155-156: the reader returns t and the pipeline begins
ReadOk(t) ==
    /\ pc = "Extracting"
    /\ Supported(LowerExt(path))
    /\ text' = t
    /\ sections' = split_into_sections(t)
    /\ section_summaries' = << >>
    /\ summaries' = << >>
    /\ idx' = 1
    /\ path' = None
    /\ pc' = "Summarizing"
    /\ UNCHANGED << cursorVars, mode, error, merged_summary, merge_kind,
                    merge_calls, merge_error, callVars, lastKey, result, concVars,
                    storeVars, ingestVars >>

\* mutant of KeptCursor: every call starts again at the first credential
KeptCursor_Reset(i) == 0

\* line 17: current_key_index is set when the module is imported, and no
\* line sets it again when a call ends
KeptCursor(i) == i

\* the call is over; the process waits for the next one
Finish ==
    /\ pc \in (IF endpoint = "none" THEN {"Done", "Failed"} ELSE {"Responded"})
    /\ pc' = "Idle"
    /\ ResetLocals
    /\ current_key_index' = KeptCursor(current_key_index)
    /\ summary_path' = None
    /\ save_error' = None
    /\ save_args' = None
    /\ endpoint' = "none"
    /\ raw_path' = None
    /\ title' = None
    /\ url' = None
    /\ response' = None
    /\ UNCHANGED << api_key, concVars, dirs, files, readback, raw_files, db,
                    pending, requests >>

Next ==
    \/ \E p \in Exts : CallSummarizeDocument(p)
    \/ ReadUnsupported
    \/ ReadFails
    \/ \E t \in DocTexts : ReadOk(t)
    \/ NextSection
    \/ \E o \in Outcomes : Attempt(o)
    \/ ReturnSection
    \/ \E o \in Outcomes : Merge(o)
    \/ \E b \in SectionBodies, r \in 0..MaxRetries : CallSummarizeSection(b, r)
    \/ Finish

Spec == Init /\ [][Next]_vars

\* ------------------------------- switch_to_next_key, run by several flows
\* Each flow has met a quota error and runs lines 91-96 one step at a time;
\* no lock orders the steps of different flows.
mainVars == << pc, mode, docVars, callVars, lastKey, result, storeVars,
              ingestVars >>

\* line 91: the bound check; False is returned when it fails (line 97)
KCheck(f) ==
    /\ kpc[f] = "idle"
    /\ IF CanSwitch(current_key_index)
       THEN /\ kpc' = [kpc EXCEPT ![f] = "load"]
            /\ kret' = [kret EXCEPT ![f] = "running"]
       ELSE /\ kpc' = kpc
            /\ kret' = [kret EXCEPT ![f] = "False"]
    /\ UNCHANGED << cursorVars, kreg, kkey, kmax, mainVars >>

\* line 92, first half: the cursor is read
KLoad(f) ==
    /\ kpc[f] = "load"
    /\ kreg' = [kreg EXCEPT ![f] = current_key_index]
    /\ kpc' = [kpc EXCEPT ![f] = "store"]
    /\ UNCHANGED << cursorVars, kret, kkey, kmax, mainVars >>

\* line 92, second half: the incremented value is written back
KStore(f) ==
    /\ kpc[f] = "store"
    /\ current_key_index' = NextIndex(kreg[f])
    /\ kmax' = Max(kmax, NextIndex(kreg[f]))
    /\ kpc' = [kpc EXCEPT ![f] = "lookup"]
    /\ UNCHANGED << api_key, kreg, kret, kkey, mainVars >>

\* line 94, the argument: GEMINI_API_KEYS[current_key_index] is evaluated
\* with the cursor as it is now; an index past the list raises IndexError
KLookup(f) ==
    /\ kpc[f] = "lookup"
    /\ IF KeyInRange(current_key_index)
       THEN /\ kkey' = [kkey EXCEPT ![f] = KeyAt(current_key_index)]
            /\ kpc' = [kpc EXCEPT ![f] = "configure"]
            /\ kret' = kret
       ELSE /\ kret' = [kret EXCEPT ![f] = "IndexError"]
            /\ kpc' = [kpc EXCEPT ![f] = "idle"]
            /\ kkey' = kkey
    /\ UNCHANGED << cursorVars, kreg, kmax, mainVars >>

\* lines 94-96: genai.configure is called with the credential looked up,
\* the client is rebuilt and True is returned
KConfigure(f) ==
    /\ kpc[f] = "configure"
    /\ api_key' = kkey[f]
    /\ kret' = [kret EXCEPT ![f] = "True"]
    /\ kpc' = [kpc EXCEPT ![f] = "idle"]
    /\ UNCHANGED << current_key_index, kreg, kkey, kmax, mainVars >>

ConcNext ==
    \E f \in Flows :
        KCheck(f) \/ KLoad(f) \/ KStore(f) \/ KLookup(f) \/ KConfigure(f)

ConcSpec == Init /\ [][ConcNext]_vars

\* ------------------------------------------ split_into_sections on its own
SplitInit ==
    /\ current_key_index = 0
    /\ api_key = KeyAt(0)
    /\ InitConc
    /\ InitStore
    /\ InitIngest
    /\ mode = "none"
    /\ path = None
    /\ error = None
    /\ text \in TextsUpTo(MaxLen)
    /\ sections = << >>
    /\ idx = 0
    /\ section_summaries = << >>
    /\ summaries = << >>
    /\ merged_summary = None
    /\ merge_kind = "none"
    /\ merge_calls = 0
    /\ merge_error = None
    /\ section_text = None
    /\ retries = 0
    /\ attempt = 0
    /\ calls = 0
    /\ sleeps = 0
    /\ outcomes = << >>
    /\ rotated = FALSE
    /\ startIndex = 0
    /\ lastKey = NoKey
    /\ ret = None
    /\ result = None
    /\ pc = "Splitting"

\* lines 58-83 applied to the text
SplitText ==
    /\ pc = "Splitting"
    /\ sections' = split_into_sections(text)
    /\ pc' = "Split"
    /\ UNCHANGED << cursorVars, mode, path, error, text, idx, section_summaries,
                    summaries, merged_summary, merge_kind, merge_calls, merge_error,
                    callVars, lastKey, result, concVars, storeVars, ingestVars >>

SplitNext == SplitText

SplitSpec == SplitInit /\ [][SplitNext]_vars

\* ------------------------------------------------------------ save_summary
\* the texts, base names and folders save_summary is called with
SaveTexts == {<< >>, << "a", "\n", "b" >>, << "⚠", " ", "a" >>,
              << "a", "\r", "\n", "b" >>, Sentinel}
BaseNames == {<< "report" >>, << "a", "/", "b" >>}
OutDirs == {<< "summaries" >>, << "out", "/", "sub", "/" >>}

\* os.path.join(a, b)
PathJoin(a, b) ==
    IF b # << >> /\ b[1] = "/" THEN b
    ELSE IF a = << >> \/ a[Len(a)] = "/" THEN a \o b
    ELSE a \o << "/" >> \o b

\* a directory path without its trailing separators
RECURSIVE NormDir(_)
NormDir(d) ==
    IF Len(d) > 1 /\ d[Len(d)] = "/" THEN NormDir(SubSeq(d, 1, Len(d) - 1))
    ELSE d

\* the directory a path lies in
Parent(p) ==
    LET seps == {k \in 1..Len(p) : p[k] = "/"}
    IN  IF seps = {} THEN Cwd
        ELSE SubSeq(p, 1, (CHOOSE k \in seps : \A j \in seps : j <= k) - 1)

\* line 230: the directories that exist after os.makedirs(d, exist_ok=True),
\* d and every directory above it
MadeDirs(d) ==
    LET n == NormDir(d)
    IN  {SubSeq(n, 1, k) : k \in {j \in 1..Len(n) :
                                    n[j] # "/" /\ (j = Len(n) \/ n[j + 1] = "/")}}

\* encoding="utf-8": the bytes of one character; the sentinel is kept in one
\* piece after its first character
Utf8(c) ==
    CASE c = "⚠" -> << "xE2", "x9A", "xA0" >>
      [] c = Sentinel[1] -> << "xE2", "x9A", "xA0", " Summary failed after retries." >>
      [] OTHER -> << c >>

RECURSIVE Encode(_)
Encode(t) == IF t = << >> THEN << >> ELSE Utf8(Head(t)) \o Encode(Tail(t))

RECURSIVE Decode(_)
Decode(b) ==
    IF b = << >> THEN << >>
    ELSE IF Len(b) >= 3 /\ SubSeq(b, 1, 3) = << "xE2", "x9A", "xA0" >>
    THEN IF Len(b) >= 4 /\ b[4] = " Summary failed after retries."
         THEN Sentinel \o Decode(SubSeq(b, 5, Len(b)))
         ELSE << "⚠" >> \o Decode(SubSeq(b, 4, Len(b)))
    ELSE << Head(b) >> \o Decode(Tail(b))

\* text-mode reading turns "\r\n" and "\r" into "\n"
RECURSIVE UniversalNewlines(_)
UniversalNewlines(t) ==
    IF t = << >> THEN << >>
    ELSE IF Head(t) = "\r"
    THEN << "\n" >> \o UniversalNewlines(IF Len(t) >= 2 /\ t[2] = "\n"
                                         THEN SubSeq(t, 3, Len(t))
                                         ELSE Tail(t))
    ELSE << Head(t) >> \o UniversalNewlines(Tail(t))

\* lines 36-38: open(path, "r", encoding="utf-8").read()
read_txt(p) == UniversalNewlines(Decode(files[p]))

\* mutant of Opened: the file is opened for appending
Opened_Append(old) == old

\* line 232: mode "w" empties the file it opens
Opened(old) == << >>

\* the directories a path passes through, above its last component
Ancestors(p) ==
    {NormDir(SubSeq(p, 1, k - 1)) : k \in {j \in 2..Len(p) : p[j] = "/"}}

\* lines 230-234 on the file system; "\n" is written as it is (POSIX)
DoSave(summary_text, base_filename, output_folder) ==
    LET folder == NormDir(output_folder)
        made == dirs \cup MadeDirs(output_folder)
        p    == PathJoin(output_folder, base_filename \o << "_summary.txt" >>)
        old  == IF p \in DOMAIN files THEN files[p] ELSE << >>
        \* line 230: why os.makedirs fails, or None
        mkErr == IF output_folder = << >> THEN << "FileNotFoundError" >>
                 ELSE IF \E a \in MadeDirs(output_folder) \ {folder} :
                             a \in DOMAIN files
                 THEN << "NotADirectoryError" >>
                 ELSE IF folder \in DOMAIN files THEN << "FileExistsError" >>
                 ELSE None
        \* line 232: why open(summary_path, "w") fails, or None
        openErr == IF \E a \in Ancestors(p) : a \in DOMAIN files
                   THEN << "NotADirectoryError" >>
                   ELSE IF Parent(p) \notin made THEN << "FileNotFoundError" >>
                   ELSE IF p \in made THEN << "IsADirectoryError" >>
                   ELSE None
    IN  /\ save_args' = << summary_text, base_filename, output_folder >>
        /\ IF mkErr # None
           THEN /\ save_error' = mkErr
                /\ summary_path' = None
                /\ UNCHANGED << dirs, files >>
           ELSE /\ dirs' = made
                /\ IF openErr = None
                   THEN /\ files' = [q \in DOMAIN files \cup {p} |->
                                        IF q = p
                                        THEN Opened(old) \o Encode(summary_text)
                                        ELSE files[q]]
                        /\ summary_path' = p
                        /\ save_error' = None
                   ELSE /\ save_error' = openErr
                        /\ summary_path' = None
                        /\ UNCHANGED files

\* a caller calls save_summary(t, b, d)
CallSaveSummary(t, b, d) ==
    /\ pc = "Idle"
    /\ DoSave(t, b, d)
    /\ pc' = IF save_error' = None THEN "Saved" ELSE "SaveFailed"
    /\ UNCHANGED << cursorVars, mode, docVars, callVars, lastKey, result,
                    concVars, readback, ingestVars >>

\* the caller reads the file at the returned path
ReadBack ==
    /\ pc = "Saved"
    /\ readback' = read_txt(summary_path)
    /\ pc' = "Read"
    /\ UNCHANGED << cursorVars, mode, docVars, callVars, lastKey, result,
                    concVars, dirs, files, summary_path, save_error,
                    save_args, ingestVars >>

\* the caller is done with this save
SaveReturn ==
    /\ pc \in {"Read", "SaveFailed"}
    /\ pc' = "Idle"
    /\ UNCHANGED << cursorVars, mode, docVars, callVars, lastKey, result,
                    concVars, storeVars, ingestVars >>

SaveNext ==
    \/ \E t \in SaveTexts, b \in BaseNames, d \in OutDirs : CallSaveSummary(t, b, d)
    \/ ReadBack
    \/ SaveReturn

SaveSpec == Init /\ [][SaveNext]_vars

\* --------------------------------------------- the ingestion endpoints
\* main.py lines 31-33: the folders, made when the module is imported
RAW_FOLDER == << "raw" >>
PROCESSED_FOLDER == << "processed" >>
SUMMARY_FOLDER == << "summaries" >>

\* the file names a request carries: << base name, extension >>
IngestNames == {<< "report", ".txt" >>, << "memo", ".md" >>}

\* the address ingest_url is asked to fetch: it names neither the raw file
\* nor the base filename of the request
Urls == {<< "https://example.org/x?id=7" >>}

\* the ways saving an upload fails (lines 131-133): file.file.seek raises
\* before the raw file is opened, or the copy raises after open() made it
UploadFailures ==
    {[opened |-> FALSE, text |-> << "I/O operation on closed file." >>],
     [opened |-> TRUE, text |-> << "[Errno 28] No space left on device" >>]}

\* the texts the raw file of a request may hold
IngestTexts == {<< >>, Words(MinWords)}

\* the answers of the generation service while a request is served
IngestOutcomes ==
    {o \in Outcomes : IF o.kind = "error"
                      THEN o.message = "429 Quota exceeded"
                      ELSE o.candidates = << << << "s" >> >> >>}

\* the state after main.py is imported (lines 36-38 make the three folders)
IngestInit ==
    /\ current_key_index = 0
    /\ api_key = KeyAt(0)
    /\ pc = "Idle"
    /\ InitLocals
    /\ InitConc
    /\ InitIngest
    /\ dirs = {Cwd, RAW_FOLDER, PROCESSED_FOLDER, SUMMARY_FOLDER}
    /\ files = << >>
    /\ summary_path = None
    /\ save_error = None
    /\ save_args = None
    /\ readback = None

\* lines 139 and 185: the raw file is in place and
\* summarize_document(raw_path) is called
BeginSummarize(name) ==
    /\ pc = "Idle"
    /\ requests < MaxRequests
    /\ requests' = requests + 1
    /\ raw_path' = PathJoin(RAW_FOLDER, name)
    /\ raw_files' = raw_files \cup {PathJoin(RAW_FOLDER, name)}
    /\ mode' = "doc"
    /\ path' = << name[2] >>
    /\ pc' = "Extracting"
    /\ UNCHANGED << cursorVars, error, text, sections, idx, section_summaries,
                    summaries, merged_summary, merge_kind, merge_calls,
                    merge_error, callVars, lastKey, result, concVars,
                    storeVars, response, db, pending >>

\* upload_file_endpoint, lines 126-139: the upload is copied to the raw folder
UploadFile(name) ==
    /\ endpoint' = "upload"
    /\ title' = << name[1] >>
    /\ url' = << "local://" >> \o name
    /\ BeginSummarize(name)

\* lines 126-135: saving the upload raises; a raw file that open() had made
\* stays where it is
UploadSaveFails(name, f) ==
    /\ pc = "Idle"
    /\ requests < MaxRequests
    /\ requests' = requests + 1
    /\ endpoint' = "upload"
    /\ title' = << name[1] >>
    /\ raw_path' = PathJoin(RAW_FOLDER, name)
    /\ raw_files' = IF f.opened THEN raw_files \cup {PathJoin(RAW_FOLDER, name)}
                    ELSE raw_files
    /\ response' = << "500", << "Failed to save uploaded file: " >> \o f.text >>
    /\ pc' = "Responded"
    /\ UNCHANGED << cursorVars, mode, docVars, callVars, lastKey, result,
                    concVars, storeVars, url, db, pending >>

\* ingest_url_endpoint, lines 172-185: save_file_from_url fetched the file of
\* data.url to the raw folder, under a name of its own choice
IngestUrl(u, name, base) ==
    /\ endpoint' = "ingest_url"
    /\ title' = base
    /\ url' = u
    /\ BeginSummarize(name)

\* lines 172-179: save_file_from_url returned a string that starts with "Error"
IngestUrlError(u, base) ==
    /\ pc = "Idle"
    /\ requests < MaxRequests
    /\ requests' = requests + 1
    /\ endpoint' = "ingest_url"
    /\ title' = base
    /\ url' = u
    /\ response' = << "400", << "Error" >> >>
    /\ pc' = "Responded"
    /\ UNCHANGED << cursorVars, mode, docVars, callVars, lastKey, result,
                    concVars, storeVars, raw_path, raw_files, db, pending >>

\* mutant of RawAfterFailure: the raw file is left in place
RawAfterFailure_Kept(raws, p) == raws

\* lines 142-143 and 188-189: os.remove(raw_path) when it exists
RawAfterFailure(raws, p) == raws \ {p}

\* lines 139-144 and 185-190: summarize_document raised
SummarizeRaised ==
    /\ pc = "Failed"
    /\ endpoint # "none"
    /\ raw_files' = RawAfterFailure(raw_files, raw_path)
    /\ response' = << "500", << "Failed to generate summary: " >> \o error >>
    /\ pc' = "Responded"
    /\ UNCHANGED << cursorVars, mode, docVars, callVars, lastKey, result,
                    concVars, storeVars, endpoint, raw_path, title, url, db,
                    pending, requests >>

\* lines 147 and 193: save_summary(summary_text, base_filename, SUMMARY_FOLDER);
\* an exception it raises leaves the endpoint
SaveSummaryFile ==
    /\ pc = "Done"
    /\ endpoint # "none"
    /\ DoSave(result, title, SUMMARY_FOLDER)
    /\ IF save_error' = None
       THEN pc' = "Recording" /\ UNCHANGED response
       ELSE pc' = "Responded" /\ response' = << "500", save_error' >>
    /\ UNCHANGED << cursorVars, mode, docVars, callVars, lastKey, result,
                    concVars, readback, endpoint, raw_path, title, url,
                    raw_files, db, pending, requests >>

\* lines 150-157 and 89-96: the record is built and insert_one is awaited.
\* The request is suspended with its locals and the event loop is free to
\* serve another request.
AwaitInsert ==
    /\ pc = "Recording"
    /\ pending' = Append(pending,
                         [endpoint |-> endpoint, raw_path |-> raw_path,
                          doc |-> [title |-> title,
                                   url |-> url,
                                   summary |-> result,
                                   summaryFilePath |-> summary_path],
                          state |-> "waiting"])
    /\ pc' = "Idle"
    /\ ResetLocals
    /\ summary_path' = None
    /\ save_error' = None
    /\ save_args' = None
    /\ endpoint' = "none"
    /\ raw_path' = None
    /\ title' = None
    /\ url' = None
    /\ UNCHANGED << cursorVars, concVars, dirs, files, readback, response,
                    raw_files, db, requests >>

\* line 96: the store inserts the record of a suspended request, whatever
\* the event loop is running
InsertRecord(i) ==
    /\ i \in DOMAIN pending
    /\ pending[i].state = "waiting"
    /\ db' = Append(db, pending[i].doc)
    /\ pending' = [pending EXCEPT ![i].state = "inserted"]
    /\ UNCHANGED << cursorVars, pc, mode, docVars, callVars, lastKey, result,
                    concVars, storeVars, endpoint, raw_path, title, url,
                    response, raw_files, requests >>

\* line 96: the insert fails
InsertFails(i) ==
    /\ i \in DOMAIN pending
    /\ pending[i].state = "waiting"
    /\ pending' = [pending EXCEPT ![i].state = "failed"]
    /\ UNCHANGED << cursorVars, pc, mode, docVars, callVars, lastKey, result,
                    concVars, storeVars, endpoint, raw_path, title, url,
                    response, raw_files, db, requests >>

\* a sequence without its i-th element
Without(q, i) == SubSeq(q, 1, i - 1) \o SubSeq(q, i + 1, Len(q))

\* lines 97-100, 159-164 and 205-210: the event loop resumes a request whose
\* insert ended; it returns the summary, or the insert's exception leaves it
ResumeRequest(i) ==
    /\ pc = "Idle"
    /\ i \in DOMAIN pending
    /\ pending[i].state # "waiting"
    /\ endpoint' = pending[i].endpoint
    /\ raw_path' = pending[i].raw_path
    /\ title' = pending[i].doc.title
    /\ url' = pending[i].doc.url
    /\ result' = pending[i].doc.summary
    /\ summary_path' = pending[i].doc.summaryFilePath
    /\ response' = IF pending[i].state = "inserted"
                   THEN << "200", pending[i].doc.summary >>
                   ELSE << "500", << "Database connection error on save." >> >>
    /\ pending' = Without(pending, i)
    /\ pc' = "Responded"
    /\ UNCHANGED << cursorVars, mode, docVars, callVars, lastKey, concVars,
                    dirs, files, save_error, save_args, readback, raw_files,
                    db, requests >>

IngestNext ==
    \/ \E name \in IngestNames : UploadFile(name)
    \/ \E name \in IngestNames, f \in UploadFailures : UploadSaveFails(name, f)
    \/ \E u \in Urls, name \in IngestNames, base \in BaseNames :
          IngestUrl(u, name, base)
    \/ \E u \in Urls, base \in BaseNames : IngestUrlError(u, base)
    \/ ReadUnsupported
    \/ ReadFails
    \/ \E t \in IngestTexts : ReadOk(t)
    \/ NextSection
    \/ \E o \in IngestOutcomes : Attempt(o)
    \/ ReturnSection
    \/ \E o \in IngestOutcomes : Merge(o)
    \/ SummarizeRaised
    \/ SaveSummaryFile
    \/ AwaitInsert
    \/ \E i \in 1..MaxRequests : InsertRecord(i)
    \/ \E i \in 1..MaxRequests : InsertFails(i)
    \/ \E i \in 1..MaxRequests : ResumeRequest(i)
    \/ Finish

IngestSpec == IngestInit /\ [][IngestNext]_vars

\* every request is answered, and the flow runs on until it returns
FairSpec == Spec /\ WF_vars(Next)

\* -------------------------------------------------------------- properties
InPipeline == mode = "doc" /\ pc \in {"Summarizing", "Attempt", "Returned", "Merging"}

SeqRange(q) == {q[i] : i \in 1..Len(q)}

\* C1: once read_document has returned, the pipeline never aborts: the Failed
\* state is entered only from Extracting, every flow that has begun summarizing
\* reaches Done, and at Done the result is a string, whatever each generation
\* request (the merge request included) came to.
C1_PipelineAlwaysCompletes ==
    /\ [][pc' = "Failed" => pc = "Extracting"]_vars
    /\ [](pc = "Done" /\ mode = "doc" => result # None /\ merge_calls = 1)
    /\ (InPipeline ~> (pc = "Done"))

\* a document of several sections came to Done although a section ended in
\* the sentinel, the credentials ran out and the merge request raised
C1_Witness ==
    /\ pc = "Done"
    /\ mode = "doc"
    /\ Len(sections) >= 2
    /\ Sentinel \in SeqRange(summaries)
    /\ current_key_index = NumKeys - 1
    /\ merge_kind = "error"

AllEmpty(q) == \A i \in 1..Len(q) : q[i] = << "empty" >>

\* C2: with a body of at least 10 words and a service that always answers
\* with empty or missing text, summarize_section issues exactly `retries`
\* requests, returns the failure sentinel and leaves the cursor where it was.
C2_EmptyAnswersExhaustRetries ==
    (pc = "Returned" /\ WordCount(section_text) >= 10 /\ AllEmpty(outcomes))
        => /\ calls = retries
           /\ Len(outcomes) = retries
           /\ ret = Sentinel
           /\ current_key_index = startIndex

C2_Witness ==
    /\ pc = "Returned"
    /\ mode = "section"
    /\ retries = MaxRetries
    /\ Len(outcomes) = retries
    /\ AllEmpty(outcomes)
    /\ ret = Sentinel

\* the step is an iteration of the retry loop in which the cursor advanced
RotationStep == pc = "Attempt" /\ current_key_index' # current_key_index

\* C3: whatever the service answers, summarize_section issues at most
\* `retries` requests and then returns; an iteration whose quota error rotates
\* the credential spends one attempt of that budget like any other.
C3_AtMostRetriesRequests ==
    /\ [](section_text # None => calls <= retries /\ attempt <= retries)
    /\ [](pc = "Attempt" => calls = attempt /\ attempt < retries)
    /\ [][RotationStep => attempt' = attempt + 1 /\ calls' = calls + 1]_vars
    /\ ((pc = "Attempt") ~> (pc = "Returned"))

\* a call returned after spending its whole budget, two attempts of it on
\* quota errors that rotated the credential
C3_Witness ==
    /\ pc = "Returned"
    /\ retries = DefaultRetries
    /\ calls = retries
    /\ current_key_index = startIndex + 2
    /\ outcomes[1] = << "quota" >>
    /\ outcomes[2] = << "quota" >>

\* C4: when the cursor is not at the last credential, the first request raises
\* a quota error and the second returns non-empty text, the cursor has
\* advanced by exactly one and summarize_section returns that text, not the
\* sentinel, after exactly two requests.
C4_QuotaThenSuccess ==
    (/\ pc = "Returned"
     /\ startIndex < NumKeys - 1
     /\ Len(outcomes) >= 2
     /\ outcomes[1] = << "quota" >>
     /\ outcomes[2][1] = "text")
        => /\ current_key_index = startIndex + 1
           /\ api_key = KeyAt(startIndex + 1)
           /\ lastKey = KeyAt(startIndex + 1)
           /\ ret = outcomes[2][2]
           /\ ret # Sentinel
           /\ calls = 2

C4_Witness ==
    /\ pc = "Returned"
    /\ startIndex = 1
    /\ outcomes = << << "quota" >>, << "text", << "s" >> >> >>
    /\ ret = << "s" >>
    /\ current_key_index = 2

\* C5: a quota error that advances the cursor is followed, before
\* summarize_section returns, by a request with the new credential, made
\* without the delay; the sentinel follows a quota error only when the
\* credentials had run out.
C5_RotationIsFollowedByRequest ==
    pc = "Returned"
        => /\ ~rotated
           /\ (ret = Sentinel /\ calls > 0 /\ outcomes[calls] = << "quota" >>)
                 => (sleeps > 0 /\ current_key_index = NumKeys - 1)

\* the step issues a generation request (per-section or merge)
RequestStep == calls' = calls + 1 \/ merge_calls' = merge_calls + 1

\* C6: in a single flow the cursor stays within 0 .. number of credentials - 1,
\* every step leaves it unchanged or adds exactly one, it never decreases or
\* resets, and once at the last index it stays there, the requests that
\* follow being issued with the last credential.
C6_CursorMonotoneInRange ==
    /\ [](/\ current_key_index \in 0..(NumKeys - 1)
          /\ api_key = KeyAt(current_key_index))
    /\ [][/\ current_key_index' \in {current_key_index, current_key_index + 1}
          /\ current_key_index = NumKeys - 1 => current_key_index' = NumKeys - 1
          /\ RequestStep => lastKey' = KeyAt(current_key_index)]_vars

\* after the cursor reached the last index in an earlier section, a later
\* section's quota error left it there and the request after it used the
\* last credential
C6_Witness ==
    /\ mode = "doc"
    /\ idx >= 2
    /\ pc = "Attempt"
    /\ current_key_index = NumKeys - 1
    /\ startIndex = NumKeys - 1
    /\ calls = 2
    /\ outcomes[1] = << "quota" >>
    /\ lastKey = KeyAt(NumKeys - 1)

\* C7: flows that run switch_to_next_key concurrently without a lock do no
\* harm: the cursor never decreases, never passes the last valid index, and
\* the lookup GEMINI_API_KEYS[cursor] is never out of range.
C7_ConcurrentAdvanceHarmless ==
    /\ current_key_index = kmax
    /\ current_key_index <= NumKeys - 1
    /\ \A f \in Flows : kret[f] # "IndexError"

\* the labeled blocks of sections 1..k as the claim describes them: for each
\* section its heading line and its summary, in section order
RECURSIVE LabeledBlocks(_)
LabeledBlocks(k) ==
    IF k = 0 THEN << >>
    ELSE (IF k = 1 THEN << >> ELSE LabeledBlocks(k - 1) \o << "\n" >>)
            \o << "#", "#", " " >> \o sections[k][1] \o << "\n" >>
            \o summaries[k] \o << "\n" >>

\* C8: when the merge request raises an error or yields empty or missing
\* text, summarize_text_by_sections returns exactly the merged-summary string,
\* the labeled blocks of all sections in section order, each holding the
\* section's summary, the empty string or the sentinel; nothing is raised.
C8_MergeFailureFallsBack ==
    (pc \in {"Done", "Failed"} /\ mode = "doc" /\ merge_kind \in {"error", "empty"})
        => /\ pc = "Done"
           /\ Len(summaries) = Len(sections)
           /\ result = LabeledBlocks(Len(sections))
           /\ result = merged_summary

\* the merge request failed after two sections, one skipped as too short and
\* one that ended in the sentinel
C8_Witness ==
    /\ pc = "Done"
    /\ mode = "doc"
    /\ merge_kind = "error"
    /\ Len(sections) = 2
    /\ summaries = << EmptyStr, Sentinel >>
    /\ result # EmptyStr

\* C9: a body of fewer than 10 whitespace-delimited words, the empty body
\* included, makes summarize_section return the empty string with no request
\* issued, no delay made and the cursor unchanged.
C9_ShortBodySkipped ==
    (section_text # None /\ WordCount(section_text) < 10)
        => /\ pc # "Attempt"
           /\ ret = EmptyStr
           /\ calls = 0
           /\ outcomes = << >>
           /\ sleeps = 0
           /\ mode = "section" => lastKey = NoKey
           /\ current_key_index = startIndex

C9_Witness ==
    /\ pc = "Returned"
    /\ mode = "section"
    /\ WordCount(section_text) = 9
    /\ retries = MaxRetries
    /\ ret = EmptyStr
    /\ calls = 0

\* the text holds no match of the heading pattern
NoHeadingLine(t) == \A i \in 1..Len(t) : MatchEnd(t, i) = 0

\* C10: a text with no heading-pattern line is split into its blank-line
\* delimited paragraphs, in order, headed "Section 1", "Section 2", ...
C10_ParagraphFallback ==
    (pc = "Split" /\ NoHeadingLine(text)) => sections = ParagraphSections(text)

\* C11: the empty text is split into an empty section list, and the pipeline
\* run on it issues no per-section generation request and raises no error.
C11_EmptyTextHasNoSections ==
    (mode = "doc" /\ text = EmptyStr /\ pc \in {"Summarizing", "Merging", "Done"}) =>
        /\ sections = << >>
        /\ calls = 0
        /\ error = None

\* the heading-pattern matches of the text, in the order they occur
HeadingLines(t) ==
    LET splits == PatternSplit(t)
    IN  [i \in 1..(Len(splits) \div 2) |-> splits[2 * i]]

\* the text between one heading-pattern match and the next (or the end)
BodyAfter(t, i) == PatternSplit(t)[2 * i + 1]

\* the text begins with a heading line, and a non-empty body follows each
HeadedText(t) ==
    /\ MatchEnd(t, 1) # 0
    /\ \A i \in 1..Len(HeadingLines(t)) : Strip(BodyAfter(t, i)) # EmptyStr

\* C12: a text that begins with a heading line, each heading followed by a
\* non-empty body, is split into exactly one section per heading, labeled with
\* it and holding its body, and the merged-summary string has one labeled
\* block per heading.
C12_OneSectionPerHeading ==
    (mode = "doc" /\ text # None /\ HeadedText(text)) =>
        /\ Len(sections) = Len(HeadingLines(text))
        /\ \A i \in 1..Len(sections) :
              /\ sections[i][1] = Strip(HeadingLines(text)[i])
              /\ sections[i][2] = Strip(BodyAfter(text, i))
        /\ pc \in {"Merging", "Done"} =>
              Len(section_summaries) = Len(HeadingLines(text))

\* the stripped parts of the text that the loop of lines 69-77 takes for
\* headings, in input order
RECURSIVE HeadingsAmong(_)
HeadingsAmong(parts) ==
    IF parts = << >> THEN << >>
    ELSE (IF PatternMatch(Strip(Head(parts)))
          THEN << Strip(Head(parts)) >> ELSE << >>)
            \o HeadingsAmong(Tail(parts))

\* a is b with some elements left out, the order kept
RECURSIVE IsSubsequence(_, _)
IsSubsequence(a, b) ==
    IF a = << >> THEN TRUE
    ELSE IF b = << >> THEN FALSE
    ELSE IF Head(a) = Head(b) THEN IsSubsequence(Tail(a), Tail(b))
    ELSE IsSubsequence(a, Tail(b))

\* the headings of the returned sections, the implicit "Introduction" that may
\* come first left out
ReturnedHeadings ==
    LET hs == [i \in 1..Len(sections) |-> sections[i][1]]
    IN  IF hs # << >> /\ Head(hs) = Introduction THEN Tail(hs) ELSE hs

\* C13: for a text with at least one heading line, the headings of the
\* returned sections follow the order of the heading lines of the text, and
\* the labeled blocks of the merged-summary string follow the same order, one
\* block per returned section, whatever each section's summary was (a text,
\* the empty string of a skipped section, or the failure sentinel).
C13_SectionAndBlockOrder ==
    (mode = "doc" /\ text # None /\ HeadingLines(text) # << >>) =>
        /\ IsSubsequence(ReturnedHeadings, HeadingsAmong(PatternSplit(text)))
        /\ Len(section_summaries) = Len(summaries)
        /\ Len(section_summaries) <= Len(sections)
        /\ \A i \in 1..Len(section_summaries) :
              section_summaries[i] =
                  << "#", "#", " " >> \o sections[i][1] \o << "\n" >>
                      \o summaries[i] \o << "\n" >>
        /\ pc \in {"Merging", "Done"} =>
              /\ Len(section_summaries) = Len(sections)
              /\ merged_summary = LabeledBlocks(Len(sections))

\* three sections under "Introduction", "AAA" and "AAAA" ended in the
\* sentinel, a text and a skip, and their three blocks were joined
C13_Witness ==
    /\ pc = "Merging"
    /\ mode = "doc"
    /\ Len(sections) = 3
    /\ sections[1][1] = Introduction
    /\ sections[2][1] = HeadingLine(1)
    /\ sections[3][1] = HeadingLine(2)
    /\ summaries[1] = Sentinel
    /\ summaries[2] \notin {EmptyStr, Sentinel}
    /\ summaries[3] = EmptyStr
    /\ merged_summary = LabeledBlocks(3)

\* the extensions of Exts that read_document has a reader for, in any case
ReadableExts == {".pdf", ".PDF", ".docx", ".doc", ".txt", ".Txt"}

\* C14: summarize_document fails exactly when read_document fails.  An
\* extension other than .pdf, .docx, .doc, .txt (in any case) raises an error
\* that names the extension; a failed extraction leaves summarize_document at
\* once, with no second read, no generation request and the cursor unchanged.
C14_FailsExactlyWhenReadFails ==
    /\ [](pc = "Failed" =>
            /\ mode = "doc"
            /\ error # None
            /\ text = None
            /\ calls = 0
            /\ merge_calls = 0
            /\ lastKey = NoKey
            /\ path[1] \in {".md", ".MD"} =>
                  error = << "Unsupported file type: ", ".md" >>
            /\ path[1] = "" => error = << "Unsupported file type: ", "" >>
            /\ path[1] \in ReadableExts => error[1] # "Unsupported file type: ")
    /\ [][/\ pc' = "Failed" => pc = "Extracting"
          /\ pc = "Extracting" => cursorVars' = cursorVars
          /\ (pc = "Extracting" /\ path[1] \notin ReadableExts) => pc' = "Failed"
          /\ pc = "Failed" => pc' = "Idle"]_vars

\* report.MD was refused after an earlier flow had advanced the cursor
C14_Witness ==
    /\ pc = "Failed"
    /\ path = << ".MD" >>
    /\ error = << "Unsupported file type: ", ".md" >>
    /\ current_key_index = 1
    /\ calls = 0

\* the characters of a string
Chars(t) == {t[i] : i \in 1..Len(t)}

\* what C15 says of a finished save_summary(t, b, d) call
SavedAndReadBack(t, b, d) ==
    /\ pc # "SaveFailed"
    /\ summary_path = NormDir(d) \o << "/" >> \o b \o << "_summary.txt" >>
    /\ NormDir(d) \in dirs
    /\ summary_path \in DOMAIN files
    /\ Decode(files[summary_path]) = t
    /\ pc = "Read" => readback = t

\* C15 as stated: for every text, base filename and output directory,
\* save_summary returns dir/<base>_summary.txt and reading that path returns
\* exactly the text, whatever existed before.
C15_RoundTripForEveryInput ==
    pc \in {"Saved", "SaveFailed", "Read"} =>
        SavedAndReadBack(save_args[1], save_args[2], save_args[3])

\* C15, amended: the same for a text with no carriage return and a base
\* filename with no path separator; the directory is created when absent and
\* a file already at the path is overwritten.
C15_RoundTripForPlainInput ==
    (/\ pc \in {"Saved", "SaveFailed", "Read"}
     /\ "\r" \notin Chars(save_args[1])
     /\ "/" \notin Chars(save_args[2])) =>
        SavedAndReadBack(save_args[1], save_args[2], save_args[3])

\* a second save to summaries/report_summary.txt was read back: the earlier
\* read of that file had returned another text
C15_Witness ==
    /\ pc = "Saved"
    /\ dirs = {Cwd, << "summaries" >>}
    /\ summary_path = << "summaries", "/", "report", "_summary.txt" >>
    /\ readback = << "a", "\n", "b" >>
    /\ save_args[1] = << "⚠", " ", "a" >>
    /\ files[summary_path] = << "xE2", "x9A", "xA0", " ", "a" >>

\* the index of a credential in GEMINI_API_KEYS
IndexOfKey(k) == CHOOSE i \in 0..(NumKeys - 1) : KeyAt(i) = k

\* C16: the cursor is never reset between sections or documents.  Once a flow
\* has advanced the cursor to index k, every generation request issued
\* afterwards, per-section or merge, by that flow or a later one, uses the
\* credential at an index >= k.
C16_RequestsNeverFallBack ==
    [][RequestStep => IndexOfKey(lastKey') >= kmax]_vars

\* the merge request of a document whose one section was skipped went out
\* with the last credential, which an earlier flow had advanced to
C16_Witness ==
    /\ pc = "Done"
    /\ mode = "doc"
    /\ Len(sections) = 1
    /\ summaries = << EmptyStr >>
    /\ merge_calls = 1
    /\ kmax = NumKeys - 1
    /\ lastKey = KeyAt(NumKeys - 1)

\* C17: within one summarize_text_by_sections run the generation requests
\* follow the sections: a request for a section is issued only when every
\* earlier section has its final result and no later one has begun, and the
\* one merge request is issued only when every section has its final result
\* (a text, the empty string or the sentinel).
C17_RequestsFollowSectionOrder ==
    [][/\ (mode = "doc" /\ calls' = calls + 1) =>
             /\ idx \in 1..Len(sections)
             /\ Len(summaries) = idx - 1
             /\ merge_calls = 0
             /\ idx' = idx
       /\ (mode = "doc" /\ mode' = "doc" /\ pc # "Extracting") =>
             /\ idx' \in {idx, idx + 1}
             /\ idx' = idx + 1 => (pc = "Returned" /\ Len(summaries') = idx)
       /\ merge_calls' = merge_calls + 1 =>
             /\ pc = "Merging"
             /\ merge_calls = 0
             /\ Len(summaries) = Len(sections)
             /\ \A i \in 1..Len(sections) : summaries[i] # None]_vars

\* three sections each had requests of their own, the first ending in the
\* sentinel, and the merge request followed them
C17_Witness ==
    /\ pc = "Done"
    /\ mode = "doc"
    /\ Len(sections) = 3
    /\ summaries[1] = Sentinel
    /\ summaries[2] \notin {EmptyStr, Sentinel}
    /\ summaries[3] \notin {EmptyStr, Sentinel}
    /\ merge_calls = 1
    /\ merge_kind = "text"

\* C18: the merge stage issues exactly one generation request, with no retry
\* and no delay, and whatever the request's outcome, a quota error with
\* unused credentials included, the cursor and the configured credential stay
\* as they were.
C18_MergeIsOneRequestCursorKept ==
    /\ [](merge_calls <= 1)
    /\ [][pc = "Merging" =>
             /\ merge_calls' = 1
             /\ pc' = "Done"
             /\ sleeps' = sleeps
             /\ calls' = calls
             /\ cursorVars' = cursorVars]_vars

\* the merge request met a quota error while the cursor stood at the first
\* of three credentials, and the flow returned the merged-summary string
C18_Witness ==
    /\ pc = "Done"
    /\ mode = "doc"
    /\ merge_calls = 1
    /\ merge_error = << "429 Quota exceeded" >>
    /\ current_key_index = 0
    /\ CanSwitch(current_key_index)
    /\ api_key = KeyAt(0)
    /\ result = merged_summary

\* C19: in both ingestion endpoints, when summarize_document raises, the raw
\* file is removed, no summary file is written, the request never reaches the
\* insert and the caller gets an error response.  A record is inserted only
\* for a request suspended at its insert, and a request is suspended there
\* only after save_summary wrote the record's summary text to the record's
\* summary file; other requests may run between the write and the insert.
C19_FailureCleansUpRecordFollowsFile ==
    /\ [][(pc = "Failed" /\ endpoint # "none" /\ pc' # pc) =>
             /\ pc' = "Responded" /\ raw_path \notin raw_files'
             /\ files' = files /\ db' = db /\ pending' = pending
             /\ response'[1] = "500"]_vars
    /\ [][files' # files => (pc = "Done" /\ error = None)]_vars
    /\ [][db' # db =>
             \E i \in DOMAIN pending :
                 /\ pending[i].state = "waiting"
                 /\ db' = Append(db, pending[i].doc)
                 /\ pending' = [pending EXCEPT ![i].state = "inserted"]]_vars
    /\ [][Len(pending') > Len(pending) =>
             /\ pc = "Recording" /\ error = None
             /\ SubSeq(pending', 1, Len(pending)) = pending
             /\ Len(pending') = Len(pending) + 1
             /\ pending'[Len(pending')].state = "waiting"
             /\ pending'[Len(pending')].doc.summary = result
             /\ pending'[Len(pending')].doc.summaryFilePath = summary_path
             /\ summary_path \in DOMAIN files
             /\ Decode(files[summary_path]) = result]_vars
    /\ [][Len(pending') = Len(pending) =>
             \A i \in DOMAIN pending : pending'[i].doc = pending[i].doc]_vars
    /\ [](pc = "Responded" /\ error # None =>
             /\ response[1] = "500" /\ raw_path \notin raw_files
             /\ summary_path = None)

\* a first request, sent to ingest_url, wrote report_summary.txt and was
\* suspended at its insert; while it waited the store inserted its record and
\* an upload of memo.md was refused by read_document: the upload's raw file is
\* gone, and the store holds the first request's file and record only
C19_Witness ==
    /\ pc = "Responded"
    /\ endpoint = "upload"
    /\ error = << "Unsupported file type: ", ".md" >>
    /\ raw_path = << "raw", "/", "memo", ".md" >>
    /\ raw_files = {<< "raw", "/", "report", ".txt" >>}
    /\ response[1] = "500"
    /\ Len(pending) = 1
    /\ pending[1].state = "inserted"
    /\ pending[1].endpoint = "ingest_url"
    /\ db = << pending[1].doc >>
    /\ db[1].url = << "https://example.org/x?id=7" >>
    /\ DOMAIN files = {db[1].summaryFilePath}
    /\ Decode(files[db[1].summaryFilePath]) = db[1].summary

====
